---- MODULE Spec2Model ----
(***************************************************************************)
(* Model of fetch_data.py: one run of main() against the cache file        *)
(* nba_data.pkl and the stats provider.  Tables (pandas DataFrames) are    *)
(* records [kind, cols, rows]; numbers that main() averages are exact      *)
(* rationals <<numerator, denominator>>.                                   *)
(***************************************************************************)
EXTENDS Integers, Sequences, FiniteSets, TLC

\* ------------------------------------------------------------------ bounds
\* Largest number of departures from the two reference runs (a cache entry
\* that differs from the warm or the cold snapshot, a provider call that
\* raises or returns something other than the usual table).
MaxAnomalies == 1
\* Largest number of rows in a fetched current-season game log.
MaxLogRows == 2
\* Largest games-played value stored in a cached current-season career row.
MaxGP == 2

\* --------------------------------------------------------------- constants
PLAYER_NAME == "Deni Avdija"
PLAYER_ID == 1630166
CurrentSeason == "2025-26"
PastSeasons == <<"2022-23", "2023-24", "2024-25">>
SEASONS_SHOT_MAPS == {"2022-23", "2023-24", "2024-25", "2025-26"}

\* A cell that pd.to_numeric(errors="coerce") could not convert.
NaN == -1

\* ------------------------------------------------------------------ tables
DataFrame(cols, rows) == [kind |-> "df", cols |-> cols, rows |-> rows]
\* pd.DataFrame(): no columns, no rows.
EmptyDataFrame == DataFrame({}, <<>>)
\* A key that is not in the mapping, the value None, an object that is not a
\* table (no .empty attribute, no item assignment), a local not yet bound.
Absent == [kind |-> "absent", cols |-> {}, rows |-> <<>>]
None == [kind |-> "none", cols |-> {}, rows |-> <<>>]
Malformed == [kind |-> "malformed", cols |-> {}, rows |-> <<>>]
Unset == [kind |-> "unset", cols |-> {}, rows |-> <<>>]

\* len(df)
DfLen(df) == Len(df.rows)
\* df.empty: any axis of length 0.
DfEmpty(df) == Len(df.rows) = 0 \/ df.cols = {}

\* is_valid_df raises AttributeError on an object without .empty
\* (None short-circuits before .empty is read).
is_valid_df_raises(df) == df.kind = "malformed"
\* The check without `not df.empty`.
is_valid_df_NoEmptyCheck(df) == df.kind # "none"
is_valid_df(df) == df.kind # "none" /\ ~DfEmpty(df)

\* `key in mapping`
HasKey(v) == v.kind # "absent"
\* A lookup that also replaces None and empty tables by the default.
GetOrEmptyUnlessValid(v) ==
    IF HasKey(v) /\ v.kind = "df" /\ ~DfEmpty(v) THEN v ELSE EmptyDataFrame
\* mapping.get(key, pd.DataFrame())
GetOrEmpty(v) == IF HasKey(v) THEN v ELSE EmptyDataFrame

\* --------------------------------------------------------------- rationals
RECURSIVE GCD(_, _)
GCD(a, b) == IF b = 0 THEN a ELSE GCD(b, a % b)
Rat(n, d) == LET g == GCD(n, d) IN <<n \div g, d \div g>>
Zero == Rat(0, 1)
Int2Rat(n) == Rat(n, 1)

\* ------------------------------------------------------------ game logs
cols_to_agg == {"MIN", "PTS", "REB", "AST", "STL", "BLK", "TOV",
                "FGM", "FGA", "FG3M", "FG3A", "FTM", "FTA", "PF"}

\* pd.to_numeric(col, errors="coerce").fillna(0) on every aggregated column
\* present; the assignment logs[c] = ... changes the caller's table.
FillNa(logs) ==
    [logs EXCEPT !.rows =
        [i \in 1..Len(logs.rows) |->
            [c \in DOMAIN logs.rows[i] |->
                IF c \in cols_to_agg /\ logs.rows[i][c] = NaN
                THEN 0 ELSE logs.rows[i][c]]]]

RECURSIVE SumFrom(_, _, _)
SumFrom(rows, c, i) ==
    IF i > Len(rows) THEN 0 ELSE rows[i][c] + SumFrom(rows, c, i + 1)
\* logs[c].sum() after FillNa
ColSum(logs, c) == SumFrom(logs.rows, c, 1)
\* logs[c].mean() after FillNa
ColMean(logs, c) == Rat(ColSum(logs, c), Len(logs.rows))

\* ------------------------------------------------------------ career table
PatchedCols == {"GP", "GS", "MIN", "PTS", "REB", "AST", "STL", "BLK", "TOV", "PF",
                "FGM", "FGA", "FG3M", "FG3A", "FTM", "FTA",
                "FG_PCT", "FG3_PCT", "FT_PCT"}
CareerCols == {"SEASON_ID"} \cup PatchedCols

\* logs[c].mean() if c in logs.columns else 0
GuardedMean(logs, c) == IF c \in logs.cols THEN ColMean(logs, c) ELSE Zero

\* (logs[made].sum() / logs[att].sum()) if logs[att].sum() > 0 else 0
Pct(logs, made, att) ==
    IF ColSum(logs, att) > 0 THEN Rat(ColSum(logs, made), ColSum(logs, att))
    ELSE Zero

\* The subscripts of updated_row that are not guarded by `in logs.columns`:
\* each raises KeyError when its column is missing.  The condition of a
\* percentage is evaluated first, the makes only when it is true.
PctRaises(logs, made, att) ==
    IF att \notin logs.cols THEN TRUE
    ELSE ColSum(logs, att) > 0 /\ made \notin logs.cols
updated_row_raises(logs) ==
    \/ {"PTS", "REB", "AST"} \ logs.cols # {}
    \/ PctRaises(logs, "FGM", "FGA")
    \/ PctRaises(logs, "FG3M", "FG3A")
    \/ PctRaises(logs, "FTM", "FTA")

\* updated_row, from the log after FillNa.
updated_row(logs) ==
    [c \in PatchedCols |->
        CASE c \in {"GP", "GS"} -> Int2Rat(DfLen(logs))
          [] c \in {"PTS", "REB", "AST"} -> ColMean(logs, c)
          [] c = "FG_PCT" -> Pct(logs, "FGM", "FGA")
          [] c = "FG3_PCT" -> Pct(logs, "FG3M", "FG3A")
          [] c = "FT_PCT" -> Pct(logs, "FTM", "FTA")
          [] OTHER -> GuardedMean(logs, c)]

\* Positions of the rows of a season: career_df["SEASON_ID"] == season
SeasonMask(career_df, season) ==
    {i \in 1..Len(career_df.rows) : career_df.rows[i]["SEASON_ID"] = season}
Min(S) == CHOOSE x \in S : \A y \in S : x <= y

\* career_df.at[idx, col] = val for every col of updated_row the table has,
\* idx the first row of the current season.
\* The same assignment made to the last row of the table.
SetRowLast(career_df, upd) ==
    IF SeasonMask(career_df, CurrentSeason) = {} THEN career_df
    ELSE [career_df EXCEPT !.rows[Len(career_df.rows)] =
            [c \in DOMAIN @ |-> IF c \in DOMAIN upd THEN upd[c] ELSE @[c]]]
SetRow(career_df, upd) ==
    LET mask == SeasonMask(career_df, CurrentSeason) IN
    IF mask = {} THEN career_df
    ELSE LET idx == Min(mask) IN
         [career_df EXCEPT !.rows[idx] =
            [c \in DOMAIN @ |-> IF c \in DOMAIN upd THEN upd[c] ELSE @[c]]]

local_patch_raises(career_df, logs) ==
    /\ ~(DfEmpty(logs) \/ DfEmpty(career_df))
    /\ \/ updated_row_raises(FillNa(logs))
       \/ "SEASON_ID" \notin career_df.cols

\* The table local_patch_career_stats returns (the caller's table, changed
\* in place) and the caller's log after the call.
PatchedCareer(career_df, logs) ==
    IF DfEmpty(logs) \/ DfEmpty(career_df) THEN career_df
    ELSE SetRow(career_df, updated_row(FillNa(logs)))
PatchedLogs(career_df, logs) ==
    IF DfEmpty(logs) \/ DfEmpty(career_df) THEN logs ELSE FillNa(logs)

\* ------------------------------------------------------- cache snapshots
\* One row of an opaque table: which dataset it belongs to and where it
\* came from (the cache file or this run's provider call).
Cached(k) == DataFrame({"v"}, <<[key |-> k, src |-> "cache"]>>)
Fresh(k) == DataFrame({"v"}, <<[key |-> k, src |-> "provider"]>>)
\* A provider answer with its columns and no rows.
NoRows == DataFrame({"v"}, <<>>)

NoCharts == [s \in SEASONS_SHOT_MAPS |-> Absent]
Dict(m) == [kind |-> "dict", m |-> m]
NoDict(k) == [kind |-> k, m |-> NoCharts]

\* A career row as the provider or an earlier run stored it.
CareerRow(season, gp) ==
    [c \in CareerCols |->
        IF c = "SEASON_ID" THEN season
        ELSE IF c = "GP" THEN Int2Rat(gp) ELSE Int2Rat(1)]
PastRow == CareerRow("2024-25", 1)
DropCols(df, drop) ==
    [df EXCEPT !.cols = @ \ drop,
               !.rows = [i \in 1..Len(@) |-> [c \in (DOMAIN @[i]) \ drop |-> @[i][c]]]]
WarmCareer == DataFrame(CareerCols, <<PastRow, CareerRow(CurrentSeason, 1)>>)
CareerTables ==
    {DataFrame(CareerCols, rows) :
        rows \in {<<>>, <<PastRow>>}
                 \cup {<<CareerRow(CurrentSeason, g)>> : g \in 0..MaxGP}
                 \cup {<<PastRow, CareerRow(CurrentSeason, g)>> : g \in 0..MaxGP}
                 \cup {<<CareerRow(CurrentSeason, g), PastRow>> : g \in 0..MaxGP}}
    \cup {DropCols(WarmCareer, {"FG_PCT"}), DropCols(WarmCareer, {"SEASON_ID"}),
          DropCols(WarmCareer, {"GP"})}

DatasetKeys == {"career_basic", "career_advanced", "game_logs_2025_26",
                "game_logs_2024_25", "game_logs_2023_24", "allstar_stats",
                "allstar_detailed_stats", "league_ft_stats"}

\* The empty mapping: what main() starts from without a readable file.
Cold ==
    [career_basic |-> Absent, career_advanced |-> Absent,
     game_logs_2025_26 |-> Absent, game_logs_2024_25 |-> Absent,
     game_logs_2023_24 |-> Absent, shot_charts |-> NoDict("absent"),
     allstar_stats |-> Absent, allstar_detailed_stats |-> Absent,
     league_ft_stats |-> Absent,
     fetched_at |-> "", player_id |-> 0, player_name |-> ""]
\* What an earlier complete run leaves in the file.
Warm ==
    [career_basic |-> WarmCareer, career_advanced |-> Cached("career_advanced"),
     game_logs_2025_26 |-> Cached("game_logs_2025_26"),
     game_logs_2024_25 |-> Cached("game_logs_2024_25"),
     game_logs_2023_24 |-> Cached("game_logs_2023_24"),
     shot_charts |-> Dict([s \in SEASONS_SHOT_MAPS |-> Cached(s)]),
     allstar_stats |-> Cached("allstar_stats"),
     allstar_detailed_stats |-> Cached("allstar_detailed_stats"),
     league_ft_stats |-> Cached("league_ft_stats"),
     fetched_at |-> "earlier", player_id |-> PLAYER_ID, player_name |-> PLAYER_NAME]

\* The values one entry of the file can hold.
EntryValues(k) ==
    CASE k = "career_basic" -> {Absent, None, Malformed, EmptyDataFrame} \cup CareerTables
      [] k \in {"game_logs_2024_25", "game_logs_2023_24", "allstar_stats"} \cup
               {PastSeasons[i] : i \in 1..Len(PastSeasons)} ->
            {Absent, None, Malformed, EmptyDataFrame, Cached(k)}
      [] k \in {"career_advanced", "allstar_detailed_stats"} ->
            {Absent, None, EmptyDataFrame, Cached(k)}
      [] OTHER -> {Absent, Cached(k)}

\* A snapshot with one entry changed.
WithEntry(snap, k, v) == [snap EXCEPT ![k] = v]
WithCharts(snap, kind) ==
    [snap EXCEPT !.shot_charts = IF kind = "dict" THEN Dict(NoCharts) ELSE NoDict(kind)]
WithChart(snap, season, v) ==
    [snap EXCEPT !.shot_charts =
        Dict([(IF @.kind = "dict" THEN @.m ELSE NoCharts) EXCEPT ![season] = v])]
\* Every snapshot that differs from snap in one entry, in the shot-chart
\* mapping as a whole, or in one season's chart.
OneAway(snap) ==
    UNION {{WithEntry(snap, k, v) : v \in EntryValues(k)} : k \in DatasetKeys}
    \cup {WithCharts(snap, kind) : kind \in {"absent", "none", "malformed", "dict"}}
    \cup UNION {{WithChart(snap, s, v) : v \in EntryValues(s)} : s \in SEASONS_SHOT_MAPS}
\* The snapshots at most d entries away from the empty mapping or from a
\* complete earlier run, and those exactly d away.
RECURSIVE Within(_)
Within(d) ==
    IF d = 0 THEN {Cold, Warm}
    ELSE LET W == Within(d - 1) IN W \cup UNION {OneAway(snap) : snap \in W}
Layer(d) == IF d = 0 THEN Within(0) ELSE Within(d) \ Within(d - 1)

\* ------------------------------------------------------------ the provider
\* A game of the current-season log: every aggregated column is numeric,
\* or NaN where fetch_game_logs could not coerce it.
LogRow(pts, ftm, fta) ==
    [c \in cols_to_agg |->
        CASE c = "PTS" -> pts
          [] c = "FTM" -> ftm
          [] c = "FTA" -> fta
          [] c \in {"FGA", "FG3A"} -> 2
          [] OTHER -> 1]
LogRows == {LogRow(1, 0, 0), LogRow(NaN, 1, 1)}
LogColSets == {cols_to_agg, cols_to_agg \ {"PTS"}, cols_to_agg \ {"MIN"},
               cols_to_agg \ {"FGA"}}
LogTables ==
    {DropCols(DataFrame(cols_to_agg, rows), cols_to_agg \ cs) :
        rows \in UNION {[1..n -> LogRows] : n \in 0..MaxLogRows}, cs \in LogColSets}
NominalLog == DataFrame(cols_to_agg, <<LogRow(1, 0, 0), LogRow(1, 0, 0)>>)
FreshCareer == DataFrame(CareerCols, <<PastRow, CareerRow(CurrentSeason, 2)>>)

\* What the provider usually answers for a dataset.
Nominal(k) ==
    CASE k = "game_logs_2025_26" -> NominalLog
      [] k = "career_basic" -> FreshCareer
      [] OTHER -> Fresh(k)
\* An answer of the provider: it raises, or it returns a table.
Answer(raised, df) == [raised |-> raised, df |-> df]
Answers(k) ==
    {Answer(TRUE, Unset), Answer(FALSE, NoRows), Answer(FALSE, Nominal(k))}
    \cup (IF k = "game_logs_2025_26" THEN {Answer(FALSE, t) : t \in LogTables} ELSE {})
Cost(k, a) == IF a = Answer(FALSE, Nominal(k)) THEN 0 ELSE 1

\* What the fetch_* wrapper returns for an answer: every wrapper turns an
\* exception into pd.DataFrame(); fetch_allstar_stats and
\* fetch_allstar_detailed_stats also return it when no row is left.
FetchResult(k, a) ==
    IF a.raised THEN EmptyDataFrame
    ELSE IF k \in {"allstar_stats", "allstar_detailed_stats"} /\ DfEmpty(a.df)
         THEN EmptyDataFrame
         ELSE a.df

\* ------------------------------------------------------------------- state
VARIABLES
    pc,                   \* position in main()
    cache_file,           \* nba_data.pkl: [state, data]
    load_outcome,         \* how step 1 ended
    loaded,               \* existing_data as step 1 left it
    existing_data,
    player_id,
    logs_25_26, actual_games_played,
    need_career_fetch, career_basic, career_adv,
    logs_24_25, logs_23_24,
    shot_charts, season,
    should_fetch_allstar, allstar_stats, allstar_detailed,
    league_ft,
    returned,             \* what each fetch_* call of this run returned
    events,               \* file accesses, dataset decisions, provider calls
    anomalies             \* departures from the reference runs so far

vMain == <<player_id, logs_25_26, actual_games_played, need_career_fetch,
           career_basic, career_adv, logs_24_25, logs_23_24, shot_charts, season,
           should_fetch_allstar, allstar_stats, allstar_detailed, league_ft>>
vars == <<pc, cache_file, load_outcome, loaded, existing_data, vMain,
          returned, events, anomalies>>

ProviderKeys == DatasetKeys \cup SEASONS_SHOT_MAPS

Event(ev, k, ok) == [ev |-> ev, key |-> k, ok |-> ok]
Positions(ev, k) == {i \in 1..Len(events) : events[i].ev = ev /\ events[i].key = k}
Calls(k) == Cardinality(Positions("call", k))
Raised(k) == \E i \in Positions("call", k) : ~events[i].ok

Init ==
    /\ pc = "load"
    /\ \/ /\ cache_file \in {[state |-> st, data |-> Cold] : st \in {"absent", "corrupt"}}
          /\ anomalies = 0
       \/ \E d \in 0..MaxAnomalies : \E snap \in Layer(d) :
            /\ cache_file = [state |-> "ok", data |-> snap]
            /\ anomalies = d
    /\ load_outcome = "pending"
    /\ loaded = Cold
    /\ existing_data = Cold
    /\ player_id = 0
    /\ logs_25_26 = Unset /\ actual_games_played = 0
    /\ need_career_fetch = TRUE /\ career_basic = Unset /\ career_adv = Unset
    /\ logs_24_25 = Unset /\ logs_23_24 = Unset
    /\ shot_charts = NoDict("unset") /\ season = 0
    /\ should_fetch_allstar = TRUE /\ allstar_stats = Unset /\ allstar_detailed = Unset
    /\ league_ft = Unset
    /\ returned = [k \in ProviderKeys |-> Unset]
    /\ events = <<>>

\* An uncaught exception ends the process.
Crash ==
    /\ pc' = "crashed"
    /\ UNCHANGED <<cache_file, load_outcome, loaded, existing_data, vMain,
                   returned, anomalies>>

\* fetch_*(...) for dataset k with the provider's answer a.
ProviderCall(k, a) ==
    /\ anomalies + Cost(k, a) <= MaxAnomalies
    /\ anomalies' = anomalies + Cost(k, a)
    /\ returned' = [returned EXCEPT ![k] = FetchResult(k, a)]

\* 1. Load Existing Data
LoadNoFile ==
    /\ pc = "load" /\ cache_file.state = "absent"
    /\ pc' = "get_player_id"
    /\ load_outcome' = "no file"
    /\ UNCHANGED <<cache_file, loaded, existing_data, vMain, returned, events, anomalies>>
\* The load without its except clause.
LoadCorruptUncaught ==
    /\ pc = "load" /\ cache_file.state = "corrupt"
    /\ pc' = "crashed"
    /\ load_outcome' = "corrupt"
    /\ events' = Append(events, Event("read", "file", FALSE))
    /\ UNCHANGED <<cache_file, loaded, existing_data, vMain, returned, anomalies>>
LoadCorrupt ==
    /\ pc = "load" /\ cache_file.state = "corrupt"
    /\ pc' = "get_player_id"
    /\ load_outcome' = "corrupt"
    /\ existing_data' = Cold /\ loaded' = Cold
    /\ events' = Append(events, Event("read", "file", FALSE))
    /\ UNCHANGED <<cache_file, vMain, returned, anomalies>>
LoadOk ==
    /\ pc = "load" /\ cache_file.state = "ok"
    /\ pc' = "get_player_id"
    /\ load_outcome' = "loaded"
    /\ existing_data' = cache_file.data /\ loaded' = cache_file.data
    /\ events' = Append(events, Event("read", "file", TRUE))
    /\ UNCHANGED <<cache_file, vMain, returned, anomalies>>

\* get_player_id: the static lookup finds the player, finds nothing or
\* raises; the id is the known one in every case.
get_player_id ==
    /\ pc = "get_player_id"
    /\ pc' = "logs_25_26"
    /\ \E hit \in {"found", "none", "raised"} : player_id' = PLAYER_ID
    /\ UNCHANGED <<cache_file, load_outcome, loaded, existing_data, logs_25_26,
                   actual_games_played, need_career_fetch, career_basic, career_adv,
                   logs_24_25, logs_23_24, shot_charts, season, should_fetch_allstar,
                   allstar_stats, allstar_detailed, league_ft, returned, events, anomalies>>

\* 2. ALWAYS Fetch Current Season Game Logs
FetchCurrentLogs ==
    /\ pc = "logs_25_26"
    /\ pc' = "career_check"
    /\ \E a \in Answers("game_logs_2025_26") :
        /\ ProviderCall("game_logs_2025_26", a)
        /\ logs_25_26' = FetchResult("game_logs_2025_26", a)
        /\ actual_games_played' = DfLen(FetchResult("game_logs_2025_26", a))
        /\ events' = events \o <<Event("decide", "game_logs_2025_26", TRUE),
                                 Event("call", "game_logs_2025_26", ~a.raised)>>
    /\ UNCHANGED <<cache_file, load_outcome, loaded, existing_data, player_id,
                   need_career_fetch, career_basic, career_adv,
                   logs_24_25, logs_23_24, shot_charts, season, should_fetch_allstar,
                   allstar_stats, allstar_detailed, league_ft>>

\* `key in existing_data and is_valid_df(existing_data[key])`: the entry is
\* reused, the validity check raises, or the dataset is fetched.
CheckRaises(v) == HasKey(v) /\ is_valid_df_raises(v)
\* The test with the validity check left out.
ReusableIfPresent(v) == HasKey(v) /\ ~is_valid_df_raises(v)
Reusable(v) == HasKey(v) /\ ~is_valid_df_raises(v) /\ is_valid_df(v)
MustFetch(v) == ~CheckRaises(v) /\ ~Reusable(v)

\* 3. Smart Career Fetch
\* cached_df[cached_df["SEASON_ID"] == "2025-26"] is not empty
HasCurrentRow(cached_df) == SeasonMask(cached_df, CurrentSeason) # {}
\* int(current_season_row.iloc[0]["GP"])
cached_gp(cached_df) == cached_df.rows[Min(SeasonMask(cached_df, CurrentSeason))]["GP"][1]
\* cached_gp >= actual_games_played
\* The comparison with > for >=.
CacheCurrentStrict(gp, actual) == gp > actual
CacheCurrent(gp, actual) == gp >= actual
\* The subscripts of lines 356 and 359 raise KeyError on a missing column.
CareerLookupRaises(cached_df) ==
    IF "SEASON_ID" \notin cached_df.cols THEN TRUE
    ELSE HasCurrentRow(cached_df) /\ "GP" \notin cached_df.cols

vAfterCareer == <<logs_24_25, logs_23_24, shot_charts, season, should_fetch_allstar,
                  allstar_stats, allstar_detailed, league_ft>>

CareerCheckRaises ==
    /\ pc = "career_check"
    /\ LET cached_df == existing_data.career_basic IN
        \/ CheckRaises(cached_df)
        \/ Reusable(cached_df) /\ CareerLookupRaises(cached_df)
    /\ events' = Append(events, Event("raise", "career_basic", FALSE))
    /\ Crash

\* cached_gp >= actual_games_played: the cached tables are kept.
CareerSkip ==
    /\ pc = "career_check"
    /\ LET cached_df == existing_data.career_basic IN
        /\ Reusable(cached_df) /\ ~CareerLookupRaises(cached_df)
        /\ HasCurrentRow(cached_df)
        /\ CacheCurrent(cached_gp(cached_df), actual_games_played)
        /\ career_basic' = cached_df
    /\ career_adv' = GetOrEmpty(existing_data.career_advanced)
    /\ need_career_fetch' = FALSE
    /\ pc' = "logs_24_25"
    /\ events' = events \o <<Event("reconcile", "career_basic", TRUE),
                             Event("decide", "career_basic", TRUE)>>
    /\ UNCHANGED <<cache_file, load_outcome, loaded, existing_data, player_id,
                   logs_25_26, actual_games_played, vAfterCareer, returned, anomalies>>

\* cached_gp < actual_games_played: the current-season row is recomputed
\* from the log.  The cached table and the log are changed in place.
CareerPatch ==
    /\ pc = "career_check"
    /\ LET cached_df == existing_data.career_basic IN
        /\ Reusable(cached_df) /\ ~CareerLookupRaises(cached_df)
        /\ HasCurrentRow(cached_df)
        /\ ~CacheCurrent(cached_gp(cached_df), actual_games_played)
        /\ ~local_patch_raises(cached_df, logs_25_26)
        /\ career_basic' = PatchedCareer(cached_df, logs_25_26)
        /\ existing_data' =
              [existing_data EXCEPT !.career_basic = PatchedCareer(cached_df, logs_25_26)]
        /\ logs_25_26' = PatchedLogs(cached_df, logs_25_26)
    /\ career_adv' = GetOrEmpty(existing_data.career_advanced)
    /\ need_career_fetch' = FALSE
    /\ pc' = "logs_24_25"
    /\ events' = events \o <<Event("reconcile", "career_basic", TRUE),
                             Event("patch", "career_basic", TRUE),
                             Event("decide", "career_basic", TRUE)>>
    /\ UNCHANGED <<cache_file, load_outcome, loaded, player_id,
                   actual_games_played, vAfterCareer, returned, anomalies>>

\* local_patch_career_stats raises KeyError: nothing catches it.
CareerPatchRaises ==
    /\ pc = "career_check"
    /\ LET cached_df == existing_data.career_basic IN
        /\ Reusable(cached_df) /\ ~CareerLookupRaises(cached_df)
        /\ HasCurrentRow(cached_df)
        /\ ~CacheCurrent(cached_gp(cached_df), actual_games_played)
        /\ local_patch_raises(cached_df, logs_25_26)
    /\ events' = events \o <<Event("reconcile", "career_basic", TRUE),
                             Event("patch", "career_basic", FALSE)>>
    /\ Crash

\* No valid cached table, or no current-season row in it.
NeedCareerFetch(cached_df) ==
    \/ MustFetch(cached_df)
    \/ Reusable(cached_df) /\ ~CareerLookupRaises(cached_df) /\ ~HasCurrentRow(cached_df)
CareerForceRefresh ==
    /\ pc = "career_check"
    /\ NeedCareerFetch(existing_data.career_basic)
    /\ pc' = "career_fetch"
    /\ events' = Append(events, Event("decide", "career_basic", TRUE))
    /\ UNCHANGED <<cache_file, load_outcome, loaded, existing_data, vMain,
                   returned, anomalies>>

\* if need_career_fetch: fetch_career_basic, then fetch_career_advanced
FetchCareer ==
    /\ pc = "career_fetch" /\ need_career_fetch
    /\ pc' = "logs_24_25"
    /\ \E a \in Answers("career_basic"), b \in Answers("career_advanced") :
        /\ anomalies + Cost("career_basic", a) + Cost("career_advanced", b) <= MaxAnomalies
        /\ anomalies' = anomalies + Cost("career_basic", a) + Cost("career_advanced", b)
        /\ career_basic' = FetchResult("career_basic", a)
        /\ career_adv' = FetchResult("career_advanced", b)
        /\ returned' = [returned EXCEPT
                          !["career_basic"] = FetchResult("career_basic", a),
                          !["career_advanced"] = FetchResult("career_advanced", b)]
        /\ events' = events \o <<Event("call", "career_basic", ~a.raised),
                                 Event("call", "career_advanced", ~b.raised)>>
    /\ UNCHANGED <<cache_file, load_outcome, loaded, existing_data, player_id,
                   logs_25_26, actual_games_played, need_career_fetch, vAfterCareer>>

\* 3b, 3c. Previous seasons' game logs: reuse if valid.
PastLogsKey == [logs_24_25 |-> "game_logs_2024_25", logs_23_24 |-> "game_logs_2023_24"]
PastLogsNext == [logs_24_25 |-> "logs_23_24", logs_23_24 |-> "shot_25_26"]
vNotPastLogs == <<player_id, logs_25_26, actual_games_played, need_career_fetch,
                  career_basic, career_adv, shot_charts, season, should_fetch_allstar,
                  allstar_stats, allstar_detailed, league_ft>>
\* The local that the step at position p binds.
BindPastLogs(p, v) ==
    /\ logs_24_25' = IF p = "logs_24_25" THEN v ELSE logs_24_25
    /\ logs_23_24' = IF p = "logs_23_24" THEN v ELSE logs_23_24

PastLogsRaises(p) ==
    /\ pc = p
    /\ CheckRaises(existing_data[PastLogsKey[p]])
    /\ events' = Append(events, Event("raise", PastLogsKey[p], FALSE))
    /\ Crash
PastLogsReuse(p) ==
    /\ pc = p
    /\ Reusable(existing_data[PastLogsKey[p]])
    /\ BindPastLogs(p, existing_data[PastLogsKey[p]])
    /\ pc' = PastLogsNext[p]
    /\ events' = Append(events, Event("decide", PastLogsKey[p], TRUE))
    /\ UNCHANGED <<cache_file, load_outcome, loaded, existing_data, vNotPastLogs,
                   returned, anomalies>>
PastLogsFetch(p) ==
    /\ pc = p
    /\ MustFetch(existing_data[PastLogsKey[p]])
    /\ \E a \in Answers(PastLogsKey[p]) :
        /\ ProviderCall(PastLogsKey[p], a)
        /\ BindPastLogs(p, FetchResult(PastLogsKey[p], a))
        /\ events' = events \o <<Event("decide", PastLogsKey[p], TRUE),
                                 Event("call", PastLogsKey[p], ~a.raised)>>
    /\ pc' = PastLogsNext[p]
    /\ UNCHANGED <<cache_file, load_outcome, loaded, existing_data, vNotPastLogs>>

\* 4. Shot Charts
\* shot_charts = existing_data.get("shot_charts", {}); None becomes {}.
\* A mapping found in the cache is the cache's own object, not a copy.
ChartsOf(raw) == IF raw.kind = "dict" THEN raw ELSE Dict(NoCharts)
Aliased(raw) == raw.kind = "dict"
\* existing_data after shot_charts was changed to charts.
Shared(charts) ==
    IF Aliased(existing_data.shot_charts)
    THEN [existing_data EXCEPT !.shot_charts = charts] ELSE existing_data
vNotShots == <<player_id, logs_25_26, actual_games_played, need_career_fetch,
               career_basic, career_adv, logs_24_25, logs_23_24, should_fetch_allstar,
               allstar_stats, allstar_detailed, league_ft>>

\* shot_charts["2025-26"] = fetch_shot_data(...): always fetched.  On an
\* object that takes no item assignment the call is made, then the
\* assignment raises TypeError.
ShotCurrent ==
    /\ pc = "shot_25_26"
    /\ existing_data.shot_charts.kind # "malformed"
    /\ \E a \in Answers(CurrentSeason) :
        /\ ProviderCall(CurrentSeason, a)
        /\ LET charts == Dict([ChartsOf(existing_data.shot_charts).m EXCEPT
                                 ![CurrentSeason] = FetchResult(CurrentSeason, a)]) IN
            /\ shot_charts' = charts
            /\ existing_data' = Shared(charts)
        /\ events' = events \o <<Event("decide", CurrentSeason, TRUE),
                                 Event("call", CurrentSeason, ~a.raised)>>
    /\ season' = 1
    /\ pc' = "shot_past"
    /\ UNCHANGED <<cache_file, load_outcome, loaded, vNotShots>>
ShotCurrentRaises ==
    /\ pc = "shot_25_26"
    /\ existing_data.shot_charts.kind = "malformed"
    /\ \E a \in Answers(CurrentSeason) :
        /\ ProviderCall(CurrentSeason, a)
        /\ events' = events \o <<Event("decide", CurrentSeason, TRUE),
                                 Event("call", CurrentSeason, ~a.raised),
                                 Event("raise", "shot_charts", FALSE)>>
    /\ pc' = "crashed"
    /\ UNCHANGED <<cache_file, load_outcome, loaded, existing_data, vMain>>

\* for season in ["2022-23", "2023-24", "2024-25"]: reuse if valid.
AfterSeason == IF season = Len(PastSeasons) THEN "allstar" ELSE "shot_past"
ShotPastRaises ==
    /\ pc = "shot_past"
    /\ CheckRaises(shot_charts.m[PastSeasons[season]])
    /\ events' = Append(events, Event("raise", PastSeasons[season], FALSE))
    /\ Crash
ShotPastReuse ==
    /\ pc = "shot_past"
    /\ Reusable(shot_charts.m[PastSeasons[season]])
    /\ events' = Append(events, Event("decide", PastSeasons[season], TRUE))
    /\ season' = season + 1
    /\ pc' = AfterSeason
    /\ UNCHANGED <<cache_file, load_outcome, loaded, existing_data, shot_charts,
                   vNotShots, returned, anomalies>>
ShotPastFetch ==
    /\ pc = "shot_past"
    /\ MustFetch(shot_charts.m[PastSeasons[season]])
    /\ \E a \in Answers(PastSeasons[season]) :
        /\ ProviderCall(PastSeasons[season], a)
        /\ LET charts == [shot_charts EXCEPT !.m[PastSeasons[season]] =
                            FetchResult(PastSeasons[season], a)] IN
            /\ shot_charts' = charts
            /\ existing_data' = Shared(charts)
        /\ events' = events \o <<Event("decide", PastSeasons[season], TRUE),
                                 Event("call", PastSeasons[season], ~a.raised)>>
    /\ season' = season + 1
    /\ pc' = AfterSeason
    /\ UNCHANGED <<cache_file, load_outcome, loaded, vNotShots>>

\* 5. All-Star Data: both tables follow the validity of allstar_stats.
vNotAllstar == <<player_id, logs_25_26, actual_games_played, need_career_fetch,
                 career_basic, career_adv, logs_24_25, logs_23_24, shot_charts, season,
                 league_ft>>
AllStarRaises ==
    /\ pc = "allstar"
    /\ CheckRaises(existing_data.allstar_stats)
    /\ events' = Append(events, Event("raise", "allstar_stats", FALSE))
    /\ Crash
AllStarReuse ==
    /\ pc = "allstar"
    /\ Reusable(existing_data.allstar_stats)
    /\ allstar_stats' = existing_data.allstar_stats
    /\ allstar_detailed' = GetOrEmpty(existing_data.allstar_detailed_stats)
    /\ should_fetch_allstar' = FALSE
    /\ pc' = "league_ft"
    /\ events' = events \o <<Event("decide", "allstar_stats", TRUE),
                             Event("decide", "allstar_detailed_stats", TRUE)>>
    /\ UNCHANGED <<cache_file, load_outcome, loaded, existing_data, vNotAllstar,
                   returned, anomalies>>
AllStarMustFetch ==
    /\ pc = "allstar"
    /\ MustFetch(existing_data.allstar_stats)
    /\ pc' = "allstar_fetch"
    /\ events' = events \o <<Event("decide", "allstar_stats", TRUE),
                             Event("decide", "allstar_detailed_stats", TRUE)>>
    /\ UNCHANGED <<cache_file, load_outcome, loaded, existing_data, vMain,
                   returned, anomalies>>
\* if should_fetch_allstar: fetch_allstar_stats, then
\* fetch_allstar_detailed_stats (which catches every player's exception
\* itself and returns pd.DataFrame(all_stats)).
FetchAllStar ==
    /\ pc = "allstar_fetch" /\ should_fetch_allstar
    /\ pc' = "league_ft"
    /\ \E a \in Answers("allstar_stats"), b \in Answers("allstar_detailed_stats") :
        /\ anomalies + Cost("allstar_stats", a) + Cost("allstar_detailed_stats", b)
              <= MaxAnomalies
        /\ anomalies' = anomalies + Cost("allstar_stats", a)
                                  + Cost("allstar_detailed_stats", b)
        /\ allstar_stats' = FetchResult("allstar_stats", a)
        /\ allstar_detailed' = FetchResult("allstar_detailed_stats", b)
        /\ returned' = [returned EXCEPT
              !["allstar_stats"] = FetchResult("allstar_stats", a),
              !["allstar_detailed_stats"] = FetchResult("allstar_detailed_stats", b)]
        /\ events' = events \o <<Event("call", "allstar_stats", ~a.raised),
                                 Event("call", "allstar_detailed_stats", ~b.raised)>>
    /\ UNCHANGED <<cache_file, load_outcome, loaded, existing_data, should_fetch_allstar,
                   vNotAllstar>>

\* 6. League FT Stats: the cached value is read and then overwritten by
\* the fetch.
FetchLeagueFt ==
    /\ pc = "league_ft"
    /\ pc' = "save"
    /\ \E a \in Answers("league_ft_stats") :
        /\ ProviderCall("league_ft_stats", a)
        /\ league_ft' = FetchResult("league_ft_stats", a)
        /\ events' = events \o <<Event("decide", "league_ft_stats", TRUE),
                                 Event("call", "league_ft_stats", ~a.raised)>>
    /\ UNCHANGED <<cache_file, load_outcome, loaded, existing_data, player_id,
                   logs_25_26, actual_games_played, need_career_fetch, career_basic,
                   career_adv, logs_24_25, logs_23_24, shot_charts, season,
                   should_fetch_allstar, allstar_stats, allstar_detailed>>

\* 6. Save
data_dict ==
    [career_basic |-> career_basic, career_advanced |-> career_adv,
     game_logs_2025_26 |-> logs_25_26, game_logs_2024_25 |-> logs_24_25,
     game_logs_2023_24 |-> logs_23_24, shot_charts |-> shot_charts,
     allstar_stats |-> allstar_stats, allstar_detailed_stats |-> allstar_detailed,
     league_ft_stats |-> league_ft,
     fetched_at |-> "now", player_id |-> player_id, player_name |-> PLAYER_NAME]
\* The write placed before the leaderboard fetch.
SaveBeforeLeague ==
    /\ pc = "league_ft" /\ Positions("write", "file") = {}
    /\ cache_file' = [state |-> "ok", data |-> data_dict]
    /\ events' = Append(events, Event("write", "file", TRUE))
    /\ pc' = "league_ft"
    /\ UNCHANGED <<load_outcome, loaded, existing_data, vMain, returned, anomalies>>
SaveOk ==
    /\ pc = "save"
    /\ cache_file' = [state |-> "ok", data |-> data_dict]
    /\ events' = Append(events, Event("write", "file", TRUE))
    /\ pc' = "done"
    /\ UNCHANGED <<load_outcome, loaded, existing_data, vMain, returned, anomalies>>
\* open() or pickle.dump raises: the error is printed.  The file is as it
\* was (open failed) or holds a truncated pickle.
SaveFails ==
    /\ pc = "save"
    /\ anomalies < MaxAnomalies
    /\ anomalies' = anomalies + 1
    /\ cache_file' \in {cache_file, [state |-> "corrupt", data |-> Cold]}
    /\ events' = Append(events, Event("write", "file", FALSE))
    /\ pc' = "done"
    /\ UNCHANGED <<load_outcome, loaded, existing_data, vMain, returned>>

Next ==
    \/ LoadNoFile \/ LoadCorrupt \/ LoadOk
    \/ get_player_id
    \/ FetchCurrentLogs
    \/ CareerCheckRaises \/ CareerSkip \/ CareerPatch \/ CareerPatchRaises
    \/ CareerForceRefresh \/ FetchCareer
    \/ \E p \in DOMAIN PastLogsKey :
        PastLogsRaises(p) \/ PastLogsReuse(p) \/ PastLogsFetch(p)
    \/ ShotCurrent \/ ShotCurrentRaises
    \/ ShotPastRaises \/ ShotPastReuse \/ ShotPastFetch
    \/ AllStarRaises \/ AllStarReuse \/ AllStarMustFetch \/ FetchAllStar
    \/ FetchLeagueFt
    \/ SaveOk \/ SaveFails

Spec == Init /\ [][Next]_vars


\* ------------------------------------------------------------ properties
\* The spec's validity of a cache entry: present, not None, at least one row.
UsableEntry(v) == v.kind = "df" /\ Len(v.rows) >= 1
Decided(k) == Positions("decide", k) # {}
\* The run ended and its write of the cache file succeeded.
SnapshotWritten == pc = "done" /\ events[Len(events)] = Event("write", "file", TRUE)
\* The entry of dataset k as loaded, as this run resolved it, as saved.
LoadedEntry(k) == IF k \in SEASONS_SHOT_MAPS THEN loaded.shot_charts.m[k] ELSE loaded[k]
ResultEntry(k) == IF k \in SEASONS_SHOT_MAPS THEN shot_charts.m[k] ELSE data_dict[k]
SavedEntry(k) ==
    IF k \in SEASONS_SHOT_MAPS THEN cache_file.data.shot_charts.m[k] ELSE cache_file.data[k]
Max(a, b) == IF a >= b THEN a ELSE b

ReuseKeys == {"game_logs_2024_25", "game_logs_2023_24", "allstar_stats",
              "allstar_detailed_stats"} \cup {PastSeasons[i] : i \in 1..Len(PastSeasons)}
AlwaysKeys == {"game_logs_2025_26", CurrentSeason, "league_ft_stats"}
DecidedKeys == ProviderKeys \ {"career_advanced"}
Resolved(k) == Decided(k) /\ pc \notin {"career_fetch", "allstar_fetch"}

\* Dataset k follows reuse-if-valid on the cache entry gate: no call and the
\* cached value kept when gate is usable, one call and the returned value
\* kept otherwise; the value kept is the value saved.
ReuseRule(k, gate, kept) ==
    /\ Calls(k) = (IF UsableEntry(gate) THEN 0 ELSE 1)
    /\ ResultEntry(k) = (IF UsableEntry(gate) THEN kept ELSE returned[k])
    /\ SnapshotWritten => SavedEntry(k) = ResultEntry(k)

\* C1 (as claimed): each of the five reuse-if-valid datasets is fetched iff
\* its own cache entry is invalid; a valid entry is saved verbatim without a
\* provider call, an invalid one is replaced by what the provider returned.
C1_OwnEntryDecides ==
    \A k \in ReuseKeys : Resolved(k) => ReuseRule(k, LoadedEntry(k), LoadedEntry(k))

\* C1 (amended): the rule holds with its own entry for both past game logs,
\* the three past shot charts and the all-star reference table; the all-star
\* detailed table follows the validity of the all-star reference entry, and
\* when that is valid the detailed value kept is the cached one, or an empty
\* table when the cache has none.
C1_ReuseIfValid ==
    /\ \A k \in ReuseKeys \ {"allstar_detailed_stats"} :
          Resolved(k) => ReuseRule(k, LoadedEntry(k), LoadedEntry(k))
    /\ Resolved("allstar_detailed_stats") =>
          ReuseRule("allstar_detailed_stats", loaded.allstar_stats,
                    IF loaded.allstar_detailed_stats.kind = "absent"
                    THEN EmptyDataFrame ELSE loaded.allstar_detailed_stats)
C1_Witness ==
    /\ SnapshotWritten
    /\ Calls("game_logs_2023_24") = 0 /\ Calls("allstar_detailed_stats") = 0
    /\ LoadedEntry("2023-24") = EmptyDataFrame
    /\ Calls("2023-24") = 1 /\ SavedEntry("2023-24") = Fresh("2023-24")
    /\ SavedEntry("game_logs_2023_24") = Cached("game_logs_2023_24")

\* C2 (as claimed): whatever the cache holds, the current-season game log,
\* the current-season shot chart and the league leaderboard are each fetched
\* exactly once, and the snapshot saved holds the value this run's call
\* returned.
C2_AlwaysRefetched ==
    /\ pc \in {"save", "done"} => \A k \in AlwaysKeys : Calls(k) = 1
    /\ SnapshotWritten => \A k \in AlwaysKeys : SavedEntry(k) = returned[k]

\* The cached career table passed the validity check and the lookups of its
\* current-season row.
CareerChecked(cb) ==
    /\ UsableEntry(cb) /\ {"SEASON_ID", "GP"} \subseteq cb.cols
    /\ HasCurrentRow(cb)
AfterCareerStep == pc \notin {"load", "get_player_id", "logs_25_26", "career_check"}
OtherSeasonsKept(cb) ==
    /\ Len(career_basic.rows) = Len(cb.rows)
    /\ \A i \in 1..Len(cb.rows) :
          cb.rows[i]["SEASON_ID"] # CurrentSeason => career_basic.rows[i] = cb.rows[i]

\* C3: with a valid cached career table whose current-season row has
\* cached_gp >= actual_gp, the career step completes, the career table kept
\* and saved is the cached one unchanged, and no career call is made.
C3_SkipKeepsCareer ==
    LET cb == loaded.career_basic IN
    (/\ AfterCareerStep
     /\ CareerChecked(cb)
     /\ cached_gp(cb) >= DfLen(returned["game_logs_2025_26"]))
    => /\ Decided("career_basic") /\ pc # "career_fetch"
       /\ career_basic = cb
       /\ Calls("career_basic") = 0 /\ Calls("career_advanced") = 0
       /\ SnapshotWritten => cache_file.data.career_basic = cb
C3_Witness ==
    /\ SnapshotWritten
    /\ CareerChecked(loaded.career_basic)
    /\ cached_gp(loaded.career_basic) = 2
    /\ DfLen(returned["game_logs_2025_26"]) = 2
    /\ cache_file.data.career_basic = loaded.career_basic

\* Sum of a column of the fetched log with missing values counted as 0.
RECURSIVE SumZ(_, _, _)
SumZ(rows, c, i) ==
    IF i > Len(rows) THEN 0
    ELSE (IF rows[i][c] = NaN THEN 0 ELSE rows[i][c]) + SumZ(rows, c, i + 1)
ExpectedPct(log, made, att) ==
    IF att \notin log.cols \/ made \notin log.cols THEN Zero
    ELSE IF SumZ(log.rows, att, 1) = 0 THEN Zero
    ELSE Rat(SumZ(log.rows, made, 1), SumZ(log.rows, att, 1))

\* C4 (as claimed): whenever cached_gp < actual_gp the local patch succeeds,
\* whatever columns the log or the table lack, and leaves the current-season
\* row with games-played = actual_gp and each shooting percentage =
\* sum(makes)/sum(attempts), or 0 when sum(attempts) is 0.
C4_PatchNeverFails ==
    \A i \in 1..Len(events) :
        events[i].ev = "patch" =>
            /\ events[i].ok
            /\ LET log == returned["game_logs_2025_26"]
                   row == career_basic.rows[Min(SeasonMask(career_basic, CurrentSeason))]
               IN /\ row["GP"] = Int2Rat(DfLen(log))
                  /\ "FG_PCT" \in DOMAIN row => row["FG_PCT"] = ExpectedPct(log, "FGM", "FGA")
                  /\ "FG3_PCT" \in DOMAIN row
                        => row["FG3_PCT"] = ExpectedPct(log, "FG3M", "FG3A")
                  /\ "FT_PCT" \in DOMAIN row => row["FT_PCT"] = ExpectedPct(log, "FTM", "FTA")

Reconciled == Positions("reconcile", "career_basic") # {} /\ Decided("career_basic")

\* C5 (as claimed): whenever the reconciliation runs, on both branches the
\* table it yields has a current-season row whose games-played equals the
\* number of rows of the log fetched in this run, and every row of another
\* season equals its cached value.
C5_GPEqualsLogRows ==
    Reconciled =>
        /\ \E i \in SeasonMask(career_basic, CurrentSeason) :
              career_basic.rows[i]["GP"] = Int2Rat(DfLen(returned["game_logs_2025_26"]))
        /\ OtherSeasonsKept(loaded.career_basic)

\* C5 (amended): the first current-season row's games-played is the number
\* of rows of the fetched log when the cached value is not larger, and the
\* cached value when it is larger (the skip branch keeps a cache that is
\* ahead of the log); every row of another season equals its cached value.
C5_GPIsLargerOfCacheAndLog ==
    Reconciled =>
        /\ career_basic.rows[Min(SeasonMask(career_basic, CurrentSeason))]["GP"] =
              Int2Rat(Max(cached_gp(loaded.career_basic),
                          DfLen(returned["game_logs_2025_26"])))
        /\ OtherSeasonsKept(loaded.career_basic)
C5_Witness ==
    /\ Reconciled /\ Positions("patch", "career_basic") # {}
    /\ Len(loaded.career_basic.rows) = 2
    /\ loaded.career_basic.rows[1]["SEASON_ID"] = CurrentSeason
    /\ cached_gp(loaded.career_basic) = 0
    /\ career_basic.rows[1]["GP"] = Int2Rat(2)
    /\ career_basic.rows[2] = PastRow

\* C6 (as claimed): for every combination of provider failures and every
\* loaded snapshot, malformed entries included, no error terminates the run:
\* every dataset decision is carried out, a failed fetch is replaced by an
\* empty table, and the snapshot write is attempted exactly once at the end.
C6_NoErrorIsFatal ==
    /\ pc # "crashed"
    /\ \A k \in ProviderKeys : Raised(k) => returned[k] = EmptyDataFrame
    /\ pc = "done" =>
          /\ \A k \in DecidedKeys : Decided(k)
          /\ Cardinality(Positions("write", "file")) = 1
          /\ events[Len(events)].ev = "write"

\* C7: a cache file that cannot be deserialized yields the empty snapshot;
\* the run does not abort, and by the time it saves every dataset has been
\* fetched exactly once and holds what the provider call returned.
C7_CorruptCacheIsColdStart ==
    load_outcome = "corrupt" =>
        /\ existing_data = Cold
        /\ pc # "crashed"
        /\ pc # "done" => ENABLED Next
        /\ pc \in {"save", "done"} =>
              \A k \in ProviderKeys : Calls(k) = 1 /\ ResultEntry(k) = returned[k]
C7_Witness ==
    /\ load_outcome = "corrupt" /\ SnapshotWritten
    /\ \A k \in ProviderKeys : Calls(k) = 1
    /\ cache_file.data.career_basic = FreshCareer

CheckedKeys == {"game_logs_2024_25", "game_logs_2023_24", "allstar_stats"}
               \cup {PastSeasons[i] : i \in 1..Len(PastSeasons)}

\* C8: the validity check is true exactly for an entry that is present, not
\* None and has at least one row, for every value an entry can hold; it
\* leaves the entry as loaded; a dataset it gates is reused exactly when it
\* holds, so a shot chart cached as an empty table is fetched again.
C8_ValidIffNonEmptyTable ==
    /\ \A k \in CheckedKeys \cup {"career_basic"} :
          LoadedEntry(k) # Malformed =>
              ((HasKey(LoadedEntry(k)) /\ is_valid_df(LoadedEntry(k)))
                  <=> UsableEntry(LoadedEntry(k)))
    /\ \A k \in CheckedKeys \ SEASONS_SHOT_MAPS : existing_data[k] = loaded[k]
    /\ \A k \in CheckedKeys :
          Resolved(k) =>
              /\ (Calls(k) = 0) <=> UsableEntry(LoadedEntry(k))
              /\ Calls(k) = 0 => ResultEntry(k) = LoadedEntry(k)
C8_Witness ==
    /\ pc = "done"
    /\ loaded.shot_charts.kind = "dict"
    /\ LoadedEntry("2022-23") = EmptyDataFrame
    /\ Calls("2022-23") = 1 /\ Calls("2023-24") = 0
    /\ shot_charts.m["2022-23"] = Fresh("2022-23")

\* C9: the cache file is read at most once and before anything else; the
\* current-season log call precedes the reconciliation; the file is written
\* at most once, after every dataset decision, and nothing follows the write.
C9_Ordering ==
    /\ Cardinality(Positions("read", "file")) <= 1
    /\ Cardinality(Positions("write", "file")) <= 1
    /\ \A i \in Positions("read", "file") : i = 1
    /\ \A i \in Positions("reconcile", "career_basic") :
          \E j \in Positions("call", "game_logs_2025_26") : j < i
    /\ \A i \in Positions("write", "file") :
          /\ i = Len(events)
          /\ \A k \in DecidedKeys : \E j \in Positions("decide", k) : j < i
          /\ \A k \in ProviderKeys : \A j \in Positions("call", k) : j < i
C9_Witness ==
    /\ pc = "done"
    /\ Positions("read", "file") = {1}
    /\ Positions("reconcile", "career_basic") # {}
    /\ Positions("write", "file") = {Len(events)}
    /\ Calls("2022-23") = 1

\* C10: both career tables are fetched, together, exactly when the cached
\* career-basic table is invalid or has no current-season row, and then no
\* local patch is applied; otherwise neither is fetched and the
\* career-advanced value kept and saved is the cached one, or an empty table
\* when the cache has none, whether or not that cached value is valid.
C10_CareerFetchRule ==
    LET cb == loaded.career_basic
        adv == loaded.career_advanced
    IN Resolved("career_basic") =>
        /\ Calls("career_basic") = Calls("career_advanced")
        /\ Calls("career_basic") =
              (IF ~UsableEntry(cb) \/ ~HasCurrentRow(cb) THEN 1 ELSE 0)
        /\ Calls("career_basic") = 1 =>
              /\ Positions("patch", "career_basic") = {}
              /\ career_basic = returned["career_basic"]
              /\ career_adv = returned["career_advanced"]
        /\ Calls("career_basic") = 0 =>
              /\ career_adv = (IF adv.kind = "absent" THEN EmptyDataFrame ELSE adv)
              /\ SnapshotWritten => cache_file.data.career_advanced = career_adv
C10_Witness ==
    /\ SnapshotWritten
    /\ Calls("career_basic") = 0
    /\ loaded.career_advanced = None
    /\ cache_file.data.career_advanced = None

====
